---------------------------- MODULE Spec2Model ----------------------------
(***************************************************************************)
(* Model of msmtp_mail.py: EmailMessageBuilder (a fluent builder around an *)
(* email.message.EmailMessage) and MsmtpClient (one synchronous            *)
(* subprocess.run of msmtp per send, plus an optional append-only log).    *)
(*                                                                         *)
(* Every public method is one action.  A call that raises is a step too:   *)
(* it records the exception in ret and leaves whatever the code had        *)
(* already mutated.  ret is the observable result of the last call.        *)
(***************************************************************************)
EXTENDS Integers, Sequences, FiniteSets, TLC

VARIABLES builder, client, log, ret

vars == <<builder, client, log, ret>>

(***************************************************************************)
(* Bounds of the model.                                                    *)
(***************************************************************************)
MaxRcpt == 2
MaxParts == 1
MaxRcptAll == 3
MaxRcptSend == 3
MaxRcptLog == 1
MaxLog == 1

(***************************************************************************)
(* Module constants of msmtp_mail.py.                                      *)
(***************************************************************************)
MSMTP_ACCOUNT == "gmail"
MSMTP_FROM_EMAIL == "u0992244071@gmail.com"
MSMTP_DEFAULT_FULLNAME == "N150 Home Server Monitoring"

(***************************************************************************)
(* Input domains.                                                          *)
(***************************************************************************)
Emails == {"a@x", "b@x"}
FullNames == {"Alias"}
Subjects == {"", "S"}
Texts == {"Hi"}
Subtypes == {"plain", "html"}
Paths == {"t.txt", "t.bin", "nope"}
MimeArgs == {"<None>", "text/html", "weird"}
LogFiles == {"<None>", "m.log", "log/m.log"}
ProcOutcomes == {"exit0", "exit1", "nostart", "timeout"}
IoOutcomes == {"ok", "mkdir_fails", "open_fails"}

None == "<None>"

(***************************************************************************)
(* Python helpers.                                                         *)
(***************************************************************************)
Range(s) == {s[i] : i \in 1..Len(s)}

\* bool(x) for a str-or-None value
Truthy(s) == s # None /\ s # ""

\* sub in s, for strings
Contains(s, sub) ==
  \E i \in 1..(Len(s) - Len(sub) + 1) : SubSeq(s, i, i + Len(sub) - 1) = sub

\* ", ".join(s)
RECURSIVE JoinComma(_)
JoinComma(s) ==
  IF s = <<>> THEN ""
  ELSE IF Len(s) = 1 THEN s[1]
  ELSE s[1] \o ", " \o JoinComma(Tail(s))

\* list(dict.fromkeys(s)): keeps the first occurrence of every key
RECURSIVE FromKeys(_, _)
FromKeys(s, seen) ==
  IF s = <<>> THEN <<>>
  ELSE IF Head(s) \in seen THEN FromKeys(Tail(s), seen)
  ELSE <<Head(s)>> \o FromKeys(Tail(s), seen \cup {Head(s)})

\* email.utils.formataddr((name, address)) for a name of plain characters
formataddr(name, address) ==
  IF name = "" THEN address ELSE name \o " <" \o address \o ">"

\* result of a method call: exception class ("none" = returned), str(e), self
R(exc, error, self) == [exc |-> exc, error |-> error, self |-> self]

(***************************************************************************)
(* email.message.EmailMessage under policy.default, as far as the builder  *)
(* uses it.  headers[name] lists the values of the headers of that name in *)
(* insertion order; content_type is "" while no Content-Type header        *)
(* exists; payload is None, the text of a single part, or (is_list) the    *)
(* list parts.                                                             *)
(***************************************************************************)
HeaderNames == {"Subject", "From", "To", "Cc", "Bcc"}

EmailMessage ==
  [headers |-> [n \in HeaderNames |-> <<>>],
   content_type |-> "",
   payload |-> None,
   is_list |-> FALSE,
   parts |-> <<>>]

\* msg.get(name): first value or None
get(msg, name) ==
  IF msg.headers[name] = <<>> THEN None ELSE msg.headers[name][1]

\* msg[name] = value: header_max_count is 1 for these headers
setitem(msg, name, value) ==
  IF Len(msg.headers[name]) >= 1
    THEN R("ValueError", "There may be at most 1 " \o name \o " headers in a message", msg)
    ELSE R("none", "", [msg EXCEPT !.headers[name] = Append(@, value)])

is_multipart(msg) == msg.is_list

get_content_maintype(msg) ==
  IF msg.content_type = "" THEN "text"
  ELSE IF Contains(msg.content_type, "multipart/") THEN "multipart"
  ELSE "text"

\* msg.set_content(text, subtype=subtype)
set_content(msg, text, subtype) ==
  IF get_content_maintype(msg) = "multipart"
    THEN R("TypeError", "set_content not valid on multipart", msg)
    ELSE R("none", "",
           [msg EXCEPT !.content_type = "text/" \o subtype,
                       !.payload = text \o "\n",
                       !.is_list = FALSE,
                       !.parts = <<>>])

\* msg.make_mixed(): existing content becomes the first sub-part
make_mixed(msg) ==
  [msg EXCEPT !.content_type = "multipart/mixed",
              !.payload = None,
              !.is_list = TRUE,
              !.parts = IF msg.content_type = "" THEN <<>>
                        ELSE <<[content_type |-> msg.content_type,
                                disposition |-> ""]>>]

\* msg.add_attachment(data, maintype=, subtype=, filename=)
msg_add_attachment(msg, maintype, subtype) ==
  LET m == IF msg.content_type = "multipart/mixed" THEN msg ELSE make_mixed(msg)
  IN [m EXCEPT !.parts = Append(@, [content_type |-> maintype \o "/" \o subtype,
                                    disposition |-> "attachment"])]

(***************************************************************************)
(* EmailMessageBuilder                                                     *)
(***************************************************************************)
EmailMessageBuilder ==
  [msg |-> EmailMessage,
   from_full_name |-> MSMTP_DEFAULT_FULLNAME,
   to |-> <<>>,
   cc |-> <<>>,
   bcc |-> <<>>]

set_from_full_name(self, name) == [self EXCEPT !.from_full_name = name]

add_to(self, email) == [self EXCEPT !.to = Append(@, email)]

add_cc(self, email) == [self EXCEPT !.cc = Append(@, email)]

add_bcc(self, email) == [self EXCEPT !.bcc = Append(@, email)]

set_subject(self, subject) ==
  LET r == setitem(self.msg, "Subject", subject)
  IN R(r.exc, r.error, [self EXCEPT !.msg = r.self])

set_body(self, text, subtype) ==
  LET r == set_content(self.msg, text, subtype)
  IN R(r.exc, r.error, [self EXCEPT !.msg = r.self])

\* os.path.isfile(path)
isfile(path) == path # "nope"

\* mimetypes.guess_type(path)[0]
guess_type(path) == IF Contains(path, ".txt") THEN "text/plain" ELSE None

\* index of the first "/" of s, 0 if there is none
SlashAt(s) ==
  IF \E i \in 1..Len(s) : SubSeq(s, i, i) = "/"
    THEN CHOOSE i \in 1..Len(s) :
           /\ SubSeq(s, i, i) = "/"
           /\ \A j \in 1..(i - 1) : SubSeq(s, j, j) # "/"
    ELSE 0

add_attachment(self, path, mime_type) ==
  IF ~isfile(path)
    THEN R("EmailBuildError", "Attachment not found: " \o path, self)
    ELSE
      LET guessed == IF mime_type = None THEN guess_type(path) ELSE mime_type
          mime == IF guessed = None THEN "application/octet-stream" ELSE guessed
          k == SlashAt(mime)
      IN IF k = 0
           THEN R("ValueError", "not enough values to unpack (expected 2, got 1)", self)
           ELSE R("none", "",
                  [self EXCEPT !.msg =
                     msg_add_attachment(@, SubSeq(mime, 1, k - 1),
                                        SubSeq(mime, k + 1, Len(mime)))])

\* the body check of build(): "" when a body is found, else the message
body_error(msg) ==
  IF is_multipart(msg)
    THEN IF \E i \in 1..Len(msg.parts) :
              msg.parts[i].content_type \in {"text/plain", "text/html"}
           THEN ""
           ELSE "No body set in multipart message."
    ELSE IF msg.payload = None \/ msg.payload = ""
           THEN "No body set."
           ELSE ""

\* the header part of build() with a Bcc header written like To and Cc
set_headers_with_bcc(self) ==
  LET f == setitem(self.msg, "From", formataddr(self.from_full_name, MSMTP_FROM_EMAIL))
      t == IF self.to # <<>> THEN setitem(f.self, "To", JoinComma(self.to))
           ELSE R("none", "", f.self)
      c == IF self.cc # <<>> THEN setitem(t.self, "Cc", JoinComma(self.cc))
           ELSE R("none", "", t.self)
      b == IF self.bcc # <<>> THEN setitem(c.self, "Bcc", JoinComma(self.bcc))
           ELSE R("none", "", c.self)
  IN IF f.exc # "none" THEN R(f.exc, f.error, [self EXCEPT !.msg = f.self])
     ELSE IF t.exc # "none" THEN R(t.exc, t.error, [self EXCEPT !.msg = t.self])
     ELSE IF c.exc # "none" THEN R(c.exc, c.error, [self EXCEPT !.msg = c.self])
     ELSE R(b.exc, b.error, [self EXCEPT !.msg = b.self])

\* the header part of build(): From, then To and Cc when non-empty
set_headers(self) ==
  LET f == setitem(self.msg, "From", formataddr(self.from_full_name, MSMTP_FROM_EMAIL))
      t == IF self.to # <<>> THEN setitem(f.self, "To", JoinComma(self.to))
           ELSE R("none", "", f.self)
      c == IF self.cc # <<>> THEN setitem(t.self, "Cc", JoinComma(self.cc))
           ELSE R("none", "", t.self)
  IN IF f.exc # "none" THEN R(f.exc, f.error, [self EXCEPT !.msg = f.self])
     ELSE IF t.exc # "none" THEN R(t.exc, t.error, [self EXCEPT !.msg = t.self])
     ELSE R(c.exc, c.error, [self EXCEPT !.msg = c.self])

\* build() without its subject check
build_no_subject_check(self) ==
  IF self.to = <<>> /\ self.cc = <<>> /\ self.bcc = <<>>
    THEN R("EmailBuildError", "No recipients set (add_to/add_cc/add_bcc).", self)
  ELSE IF body_error(self.msg) # ""
    THEN R("EmailBuildError", body_error(self.msg), self)
  ELSE set_headers(self)

build(self) ==
  IF self.to = <<>> /\ self.cc = <<>> /\ self.bcc = <<>>
    THEN R("EmailBuildError", "No recipients set (add_to/add_cc/add_bcc).", self)
  ELSE IF ~Truthy(get(self.msg, "Subject"))
    THEN R("EmailBuildError", "No subject set.", self)
  ELSE IF body_error(self.msg) # ""
    THEN R("EmailBuildError", body_error(self.msg), self)
  ELSE set_headers(self)

\* recipients() without the removal of duplicates
recipients_with_duplicates(self) == self.to \o self.cc \o self.bcc

recipients(self) == FromKeys(self.to \o self.cc \o self.bcc, {})


(***************************************************************************)
(* The recipients file: what open() and json.load() give for it.  A JSON   *)
(* value is its Python type and what iterating over it yields (the items   *)
(* of a list, the characters of a str, the keys of a dict); an object at   *)
(* the top level also carries the value under "recipients", if any.        *)
(***************************************************************************)
JValue(type, items, n) == [type |-> type, items |-> items, n |-> n]

JList(items) == JValue("list", items, 0)

JStr(chars) == JValue("str", chars, 0)

JInt(n) == JValue("int", <<>>, n)

JNull == JValue("NoneType", <<>>, 0)

JDict(keys) == JValue("dict", keys, 0)

File(status, top, has_key, value) ==
  [status |-> status, top |-> top, has_key |-> has_key, value |-> value]

Files ==
  { File("ok", "dict", TRUE, JList(<<"a@x", "b@x">>)),
    File("ok", "dict", TRUE, JList(<<>>)),
    File("ok", "dict", TRUE, JStr(<<"a", "b">>)),
    File("ok", "dict", TRUE, JInt(5)),
    File("ok", "dict", TRUE, JDict(<<"a@x">>)),
    File("ok", "dict", FALSE, JNull),
    File("ok", "list", FALSE, JList(<<"b@x">>)),
    File("ok", "list", FALSE, JList(<<>>)),
    File("ok", "str", FALSE, JStr(<<"a", "b">>)),
    File("ok", "NoneType", FALSE, JNull),
    File("parse_error", "", FALSE, JNull),
    File("io_error", "", FALSE, JNull) }

\* bool(v)
pybool(v) ==
  CASE v.type \in {"list", "str", "dict"} -> v.items # <<>>
    [] v.type = "int" -> v.n # 0
    [] OTHER -> FALSE

\* whether "for email in v" is possible
iterable(v) == v.type \in {"list", "str", "dict"}

\* self.add_to(email) for every email of the sequence, in order
RECURSIVE add_all(_, _)
add_all(self, emails) ==
  IF emails = <<>> THEN self
  ELSE add_all(add_to(self, Head(emails)), Tail(emails))

load_recipients_from_file(self, f) ==
  LET wrap(e) == R("EmailBuildError", "Error reading recipient file: " \o e, self)
  IN IF f.status = "io_error" THEN wrap("[Errno 2] No such file or directory")
     ELSE IF f.status = "parse_error" THEN wrap("Expecting value")
     ELSE IF f.top \notin {"dict", "list"}
       THEN wrap("Recipient file format not recognized.")
     ELSE
       LET emails == IF f.top = "dict"
                       THEN (IF f.has_key THEN f.value ELSE JList(<<>>))
                       ELSE f.value
       IN IF ~pybool(emails) THEN wrap("No emails found in recipient file.")
          ELSE IF ~iterable(emails) THEN wrap("object is not iterable")
          ELSE R("none", "", add_all(self, emails.items))

(***************************************************************************)
(* MsmtpClient                                                             *)
(***************************************************************************)
MsmtpClient(log_file) == [msmtp_path |-> "/usr/bin/msmtp", log_file |-> log_file]

build_cmd(self, rcpts) == <<self.msmtp_path, "-a", MSMTP_ACCOUNT>> \o rcpts

\* index of the last "/" of s, 0 if there is none
LastSlash(s) ==
  IF \E i \in 1..Len(s) : SubSeq(s, i, i) = "/"
    THEN CHOOSE i \in 1..Len(s) :
           /\ SubSeq(s, i, i) = "/"
           /\ \A j \in (i + 1)..Len(s) : SubSeq(s, j, j) # "/"
    ELSE 0

\* os.path.dirname(p) for a path without doubled slashes
dirname(p) ==
  LET i == LastSlash(p)
  IN IF i <= 1 THEN SubSeq(p, 1, i) ELSE SubSeq(p, 1, i - 1)

\* str(e) of what subprocess.run raises, and the captured stderr
ProcError(proc) ==
  CASE proc = "nostart" -> "[Errno 2] No such file or directory"
    [] proc = "timeout" -> "timed out after 60 seconds"
    [] proc = "exit1" -> "AUTH error"
    [] OTHER -> ""

\* the line written by _write_log, without its timestamp
LogLine(success, subject, rcpts, error) ==
  [status |-> IF success THEN "OK" ELSE "FAIL (" \o error \o ")",
   subject |-> subject,
   to |-> rcpts]

\* _write_log: self is the content of the log file; io is what the file
\* system does for makedirs and open
write_log(client_, lg, success, subject, rcpts, error, io) ==
  IF client_.log_file = None \/ client_.log_file = ""
    THEN R("none", "", lg)
  ELSE IF dirname(client_.log_file) = ""
    THEN R("FileNotFoundError", "[Errno 2] No such file or directory: ''", lg)
  ELSE IF io = "mkdir_fails"
    THEN R("PermissionError", "[Errno 13] Permission denied", lg)
  ELSE IF io = "open_fails"
    THEN R("PermissionError", "[Errno 13] Permission denied", lg)
  ELSE R("none", "", Append(lg, LogLine(success, subject, rcpts, error)))

\* result of send: the exception, the builder and the log file afterwards,
\* and the commands handed to subprocess.run
S(exc, error, b, lg, cmds) ==
  [exc |-> exc, error |-> error, builder |-> b, log |-> lg, cmds |-> cmds]

\* send() from subprocess.run on: b is the builder after its build()
deliver(client_, b, lg, proc, io) ==
  LET msg == b.msg
      rcpts == recipients(b)
      cmd == build_cmd(client_, rcpts)
  IN IF proc \in {"nostart", "timeout"}
       THEN LET w == write_log(client_, lg, FALSE, get(msg, "Subject"), rcpts,
                               ProcError(proc), io)
            IN IF w.exc # "none" THEN S(w.exc, w.error, b, w.self, <<cmd>>)
               ELSE S("MsmtpSendError", ProcError(proc), b, w.self, <<cmd>>)
     ELSE IF proc # "exit0"
       THEN LET w == write_log(client_, lg, FALSE, get(msg, "Subject"), rcpts,
                               ProcError(proc), io)
            IN IF w.exc # "none" THEN S(w.exc, w.error, b, w.self, <<cmd>>)
               ELSE S("MsmtpSendError", ProcError(proc), b, w.self, <<cmd>>)
     ELSE LET w == write_log(client_, lg, TRUE, get(msg, "Subject"), rcpts, None, io)
          IN S(w.exc, w.error, b, w.self, <<cmd>>)

\* send() that treats a build error like a transport error and logs it
send_logs_build_error(client_, b, lg, proc, io) ==
  LET r == build(b)
  IN IF r.exc # "none"
       THEN LET w == write_log(client_, lg, FALSE, get(b.msg, "Subject"),
                               recipients(b), r.error, io)
            IN S(r.exc, r.error, r.self, w.self, <<>>)
     ELSE deliver(client_, r.self, lg, proc, io)

send(client_, b, lg, proc, io) ==
  LET r == build(b)
  IN IF r.exc # "none" THEN S(r.exc, r.error, r.self, lg, <<>>)
     ELSE deliver(client_, r.self, lg, proc, io)

(***************************************************************************)
(* The state machine.  builder is the EmailMessageBuilder the caller       *)
(* holds, client the MsmtpClient, log the lines of the log file, ret the   *)
(* last call: its name, the exception it raised ("none" if it returned),   *)
(* str() of that exception, and for some calls the argument (arg), the     *)
(* returned value or the commands run (value) and what the transport       *)
(* process did (proc).                                                     *)
(***************************************************************************)
Ret(op, exc, error) ==
  [op |-> op, exc |-> exc, error |-> error, arg |-> <<>>, value |-> <<>>,
   proc |-> "n/a"]

NumRcpt == Len(builder.to) + Len(builder.cc) + Len(builder.bcc)

NumAttachments ==
  Cardinality({i \in 1..Len(builder.msg.parts) :
                 builder.msg.parts[i].disposition = "attachment"})

NewBuilder ==
  /\ builder' = EmailMessageBuilder
  /\ ret' = Ret("__init__", "none", "")
  /\ UNCHANGED <<client, log>>

SetFromFullName ==
  \E name \in FullNames :
    /\ builder' = set_from_full_name(builder, name)
    /\ ret' = Ret("set_from_full_name", "none", "")
    /\ UNCHANGED <<client, log>>

AddToUpTo(max) ==
  \E email \in Emails :
    /\ NumRcpt < max
    /\ builder' = add_to(builder, email)
    /\ ret' = Ret("add_to", "none", "")
    /\ UNCHANGED <<client, log>>

AddCcUpTo(max) ==
  \E email \in Emails :
    /\ NumRcpt < max
    /\ builder' = add_cc(builder, email)
    /\ ret' = Ret("add_cc", "none", "")
    /\ UNCHANGED <<client, log>>

AddBccUpTo(max) ==
  \E email \in Emails :
    /\ NumRcpt < max
    /\ builder' = add_bcc(builder, email)
    /\ ret' = Ret("add_bcc", "none", "")
    /\ UNCHANGED <<client, log>>

LoadRecipientsFromFile ==
  \E f \in Files :
    LET r == load_recipients_from_file(builder, f)
    IN /\ NumRcpt + Len(f.value.items) <= MaxRcptAll
       /\ builder' = r.self
       /\ ret' = [Ret("load_recipients_from_file", r.exc, r.error) EXCEPT !.arg = f]
       /\ UNCHANGED <<client, log>>

SetSubject ==
  \E subject \in Subjects :
    LET r == set_subject(builder, subject)
    IN /\ builder' = r.self
       /\ ret' = Ret("set_subject", r.exc, r.error)
       /\ UNCHANGED <<client, log>>

SetBody ==
  \E text \in Texts, subtype \in Subtypes :
    LET r == set_body(builder, text, subtype)
    IN /\ builder' = r.self
       /\ ret' = Ret("set_body", r.exc, r.error)
       /\ UNCHANGED <<client, log>>

AddAttachment ==
  \E path \in Paths, mime_type \in MimeArgs :
    LET r == add_attachment(builder, path, mime_type)
    IN /\ NumAttachments < MaxParts
       /\ builder' = r.self
       /\ ret' = Ret("add_attachment", r.exc, r.error)
       /\ UNCHANGED <<client, log>>

Build ==
  LET r == build(builder)
  IN /\ builder' = r.self
     /\ ret' = Ret("build", r.exc, r.error)
     /\ UNCHANGED <<client, log>>

Recipients ==
  /\ ret' = [Ret("recipients", "none", "") EXCEPT !.value = recipients(builder)]
  /\ UNCHANGED <<builder, client, log>>

Send ==
  \E proc \in ProcOutcomes, io \in IoOutcomes :
    LET r == send(client, builder, log, proc, io)
    IN /\ Len(r.log) <= MaxLog
       /\ builder' = r.builder
       /\ log' = r.log
       /\ ret' = [Ret("send", r.exc, r.error) EXCEPT
                    !.value = r.cmds,
                    !.proc = IF r.cmds = <<>> THEN "n/a" ELSE proc]
       /\ UNCHANGED client

(***************************************************************************)
(* Spec: one builder, filled and built.                                    *)
(***************************************************************************)
Init ==
  /\ builder = EmailMessageBuilder
  /\ client = MsmtpClient(None)
  /\ log = <<>>
  /\ ret = Ret("__init__", "none", "")

AddTo == AddToUpTo(MaxRcpt)

AddCc == AddCcUpTo(MaxRcpt)

AddBcc == AddBccUpTo(MaxRcpt)

Next ==
  \/ SetFromFullName
  \/ AddTo
  \/ AddCc
  \/ AddBcc
  \/ SetSubject
  \/ SetBody
  \/ AddAttachment
  \/ Build

Spec == Init /\ [][Next]_vars

(***************************************************************************)
(* SpecLists: the three address lists alone, filled by add_to, add_cc,     *)
(* add_bcc and load_recipients_from_file and read by recipients().         *)
(***************************************************************************)
ListAddTo == AddToUpTo(MaxRcptAll)

ListAddCc == AddCcUpTo(MaxRcptAll)

ListAddBcc == AddBccUpTo(MaxRcptAll)

NextLists ==
  \/ ListAddTo
  \/ ListAddCc
  \/ ListAddBcc
  \/ LoadRecipientsFromFile
  \/ Recipients

SpecLists == Init /\ [][NextLists]_vars

(***************************************************************************)
(* SpecSend: a client without a log file (the default), and a builder that *)
(* is filled, built and sent.                                              *)
(***************************************************************************)
SendAddTo == AddToUpTo(MaxRcptSend)

SendAddCc == AddCcUpTo(MaxRcptSend)

SendAddBcc == AddBccUpTo(MaxRcptSend)

NextSend ==
  \/ SendAddTo
  \/ SendAddCc
  \/ SendAddBcc
  \/ SetSubject
  \/ SetBody
  \/ Build
  \/ Send

SpecSend == Init /\ [][NextSend]_vars

(***************************************************************************)
(* SpecLog: a client with or without a log file, and callers that make     *)
(* builders, fill them and send them one after the other.                  *)
(***************************************************************************)
InitLog ==
  /\ builder = EmailMessageBuilder
  /\ client \in {MsmtpClient(f) : f \in LogFiles}
  /\ log = <<>>
  /\ ret = Ret("__init__", "none", "")

LogAddTo == AddToUpTo(MaxRcptLog)

NextLog ==
  \/ NewBuilder
  \/ LogAddTo
  \/ SetSubject
  \/ SetBody
  \/ Send

SpecLog == InitLog /\ [][NextLog]_vars

(***************************************************************************)
(* Vocabulary of the properties.                                           *)
(***************************************************************************)
AllRcpt(b) == b.to \o b.cc \o b.bcc

NoRecipients(b) == b.to = <<>> /\ b.cc = <<>> /\ b.bcc = <<>>

\* a non-empty subject has been set
SubjectSet(b) ==
  /\ b.msg.headers["Subject"] # <<>>
  /\ b.msg.headers["Subject"][1] # ""

\* set_body has put a body into the message: the single part, or the part
\* of a multipart message that is not an attachment
BodySet(b) ==
  \/ ~b.msg.is_list /\ b.msg.payload # None
  \/ \E i \in 1..Len(b.msg.parts) : b.msg.parts[i].disposition = ""

\* addresses that were added through add_bcc only
BccOnly(b) == Range(b.bcc) \ (Range(b.to) \cup Range(b.cc))

FirstIndex(s, e) ==
  CHOOSE i \in 1..Len(s) : s[i] = e /\ \A j \in 1..(i - 1) : s[j] # e

\* r is all with every later duplicate removed
IsFirstSeenDedup(r, all) ==
  /\ \A e \in Range(all) : Cardinality({i \in 1..Len(r) : r[i] = e}) = 1
  /\ Range(r) \subseteq Range(all)
  /\ \A i, j \in 1..Len(r) : i < j => FirstIndex(all, r[i]) < FirstIndex(all, r[j])

\* the step was a send that reached subprocess.run
SentToTransport == ret'.op = "send" /\ ret'.value # <<>>

(***************************************************************************)
(* C1: build() raises EmailBuildError whenever To, Cc and Bcc are all      *)
(* empty, and whenever no non-empty subject has been set, whatever the     *)
(* other fields are; when it returns, a recipient exists and the subject   *)
(* is non-empty.                                                           *)
(***************************************************************************)
C1_BuildNeedsRecipientAndSubject ==
  [][ret'.op = "build" =>
       /\ NoRecipients(builder) => ret'.exc = "EmailBuildError"
       /\ ~SubjectSet(builder) => ret'.exc = "EmailBuildError"
       /\ ret'.exc = "none" => ~NoRecipients(builder) /\ SubjectSet(builder)]_vars

C1_Witness ==
  /\ ret.op = "build"
  /\ ret.exc = "EmailBuildError"
  /\ ~NoRecipients(builder)
  /\ ~SubjectSet(builder)
  /\ BodySet(builder)

(***************************************************************************)
(* C2: build() raises EmailBuildError whenever set_body has set no body,   *)
(* for a builder with a recipient and a subject and whatever attachments   *)
(* were added.                                                             *)
(***************************************************************************)
C2_BuildNeedsBody ==
  [][ret'.op = "build" /\ ~NoRecipients(builder) /\ SubjectSet(builder)
       /\ ~BodySet(builder)
     => ret'.exc = "EmailBuildError"]_vars

(***************************************************************************)
(* C3: recipients() returns To ++ Cc ++ Bcc with every later duplicate     *)
(* removed (each added address once, nothing else, in first-seen order)    *)
(* and leaves the three lists unchanged.                                   *)
(***************************************************************************)
C3_RecipientsFirstSeenDedup ==
  [][ret'.op = "recipients" =>
       /\ IsFirstSeenDedup(ret'.value, AllRcpt(builder))
       /\ builder' = builder]_vars

C3_Witness ==
  /\ ret.op = "recipients"
  /\ builder.to # <<>> /\ builder.cc # <<>> /\ builder.bcc # <<>>
  /\ Len(ret.value) = 2
  /\ Len(AllRcpt(builder)) = 3
  /\ ret.value = <<builder.to[1], builder.cc[1]>>

(***************************************************************************)
(* C4: send on a buildable builder runs the transport exactly once and its *)
(* outcome is the transport's: it returns iff the process exited 0, raises *)
(* MsmtpSendError with the stderr text on a non-zero exit, and raises      *)
(* MsmtpSendError with the cause when the process cannot start or times    *)
(* out.                                                                    *)
(***************************************************************************)
C4_SendOutcomeIsTransportOutcome ==
  [][ret'.op = "send" /\ build(builder).exc = "none" =>
       /\ Len(ret'.value) = 1
       /\ ret'.exc = "none" <=> ret'.proc = "exit0"
       /\ ret'.proc = "exit1" =>
            ret'.exc = "MsmtpSendError" /\ ret'.error = "AUTH error"
       /\ ret'.proc \in {"nostart", "timeout"} =>
            ret'.exc = "MsmtpSendError" /\ ret'.error = ProcError(ret'.proc)]_vars

(***************************************************************************)
(* C5: the command send runs is the binary path, "-a", the account, then   *)
(* every To, Cc and Bcc address exactly once; the message build() returns  *)
(* has a To and a Cc header with the To and the Cc addresses comma-joined  *)
(* in insertion order, and no header of it contains an address added only  *)
(* through add_bcc.                                                        *)
(***************************************************************************)
C5_BccInCommandNotInHeaders ==
  [][/\ SentToTransport =>
          LET cmd == ret'.value[1]
          IN /\ Len(cmd) >= 3
             /\ SubSeq(cmd, 1, 3) = <<client.msmtp_path, "-a", "gmail">>
             /\ \A e \in Range(AllRcpt(builder)) :
                  Cardinality({i \in 4..Len(cmd) : cmd[i] = e}) = 1
             /\ \A i \in 4..Len(cmd) : cmd[i] \in Range(AllRcpt(builder))
     /\ SentToTransport \/ (ret'.op = "build" /\ ret'.exc = "none") =>
          LET h == builder'.msg.headers
          IN /\ h["To"] = IF builder.to = <<>> THEN <<>>
                          ELSE <<JoinComma(builder.to)>>
             /\ h["Cc"] = IF builder.cc = <<>> THEN <<>>
                          ELSE <<JoinComma(builder.cc)>>
             /\ \A n \in HeaderNames : \A i \in 1..Len(h[n]) :
                  \A e \in BccOnly(builder) : ~Contains(h[n][i], e)]_vars

C5_Witness ==
  /\ ret.op = "send"
  /\ ret.value # <<>>
  /\ builder.to # <<>>
  /\ builder.cc # <<>>
  /\ BccOnly(builder) # {}
  /\ builder.msg.headers["To"] # <<>>
  /\ builder.msg.headers["Cc"] # <<>>

(***************************************************************************)
(* C6: send on a builder whose build() raises EmailBuildError raises that  *)
(* error unchanged, runs no process and appends nothing to the log.        *)
(***************************************************************************)
C6_BuildErrorBeforeTransport ==
  [][ret'.op = "send" /\ build(builder).exc = "EmailBuildError" =>
       /\ ret'.exc = "EmailBuildError"
       /\ ret'.error = build(builder).error
       /\ ret'.value = <<>>
       /\ log' = log]_vars

C6_Witness ==
  /\ ret.op = "send"
  /\ ret.exc = "EmailBuildError"
  /\ ret.value = <<>>
  /\ client.log_file # None
  /\ log # <<>>

(***************************************************************************)
(* C7: with a log file configured, every send that reaches the transport   *)
(* appends exactly one line and changes no earlier line: OK iff the        *)
(* process exited 0, else FAIL with the error text.  With no log file,     *)
(* send writes nothing.                                                    *)
(***************************************************************************)
C7_OneLogLinePerAttempt ==
  [][SentToTransport =>
       IF client.log_file = None
         THEN log' = log
         ELSE /\ Len(log') = Len(log) + 1
              /\ SubSeq(log', 1, Len(log)) = log
              /\ log'[Len(log')].status = "OK" <=> ret'.proc = "exit0"
              /\ ret'.proc # "exit0" =>
                   log'[Len(log')].status = "FAIL (" \o ProcError(ret'.proc) \o ")"]_vars

(***************************************************************************)
(* C8: a send whose log line could not be written still has the            *)
(* transport's outcome: it returns if the process exited 0, and raises     *)
(* MsmtpSendError with the transport's error otherwise.                    *)
(***************************************************************************)
C8_LogFailureKeepsOutcome ==
  [][SentToTransport /\ client.log_file # None /\ log' = log =>
       /\ ret'.proc = "exit0" => ret'.exc = "none"
       /\ ret'.proc # "exit0" =>
            ret'.exc = "MsmtpSendError" /\ ret'.error = ProcError(ret'.proc)]_vars

(***************************************************************************)
(* C9: load_recipients_from_file appends the listed addresses to To, in    *)
(* order, and touches neither Cc nor Bcc, for an object with a             *)
(* "recipients" array and for a bare array; for every other document and   *)
(* for an empty array it raises EmailBuildError and changes no list.       *)
(***************************************************************************)
ListedAddresses(f) ==
  /\ f.status = "ok"
  /\ \/ f.top = "dict" /\ f.has_key /\ f.value.type = "list"
     \/ f.top = "list"
  /\ f.value.items # <<>>

C9_LoadRecipients ==
  [][ret'.op = "load_recipients_from_file" =>
       IF ListedAddresses(ret'.arg)
         THEN /\ ret'.exc = "none"
              /\ builder'.to = builder.to \o ret'.arg.value.items
              /\ builder'.cc = builder.cc
              /\ builder'.bcc = builder.bcc
         ELSE /\ ret'.exc = "EmailBuildError"
              /\ builder'.to = builder.to
              /\ builder'.cc = builder.cc
              /\ builder'.bcc = builder.bcc]_vars

(***************************************************************************)
(* C10: a build() right after a build() that succeeded, on the unchanged   *)
(* builder, succeeds too and leaves the same single From, To and Cc        *)
(* headers.                                                                *)
(***************************************************************************)
C10_BuildRepeatable ==
  [][ret.op = "build" /\ ret.exc = "none" /\ ret'.op = "build" =>
       /\ ret'.exc = "none"
       /\ builder'.msg.headers = builder.msg.headers
       /\ Len(builder'.msg.headers["From"]) = 1]_vars

=============================================================================
